---- MODULE Spec2Model ----
(***************************************************************************)
(* env_plus: EnvLoader reads a key/value text file and sets its entries as *)
(* process environment variables (src/src/lib.rs).                         *)
(*                                                                         *)
(* Strings are sequences of one-character strings.  The environment is a   *)
(* function from names to values; "\\xFF" stands for a byte that is not    *)
(* valid UTF-8 (an environment value or a file may hold one on Unix).      *)
(***************************************************************************)
EXTENDS Integers, Sequences, FiniteSets, TLC

VARIABLES
    fs,            \* the file system: path -> bytes of the file
    env,           \* the process environment: name -> value
    envs,          \* per thread: the EnvLoader value it activates
    pc,            \* per thread: "idle", "loop", "set", "panicked"
    file_lines,    \* per thread: load_file's file_lines
    ind,           \* per thread: 0-based index of the next line (enumerate)
    pending,       \* per thread: the (key, value) between env::var and set_var
    files_loaded,  \* per thread: what the last load_file returned ("none" before any)
    loads,         \* per thread: number of activate calls that returned
    panic,         \* per thread: the panic that ended it
    stdout,        \* number of println! of load_file
    stderr,        \* number of eprintln! of activate
    env_at_start,  \* history: env when the thread's current load began
    last,          \* history: the line load_line last handled, and env before it
    snap,          \* history: env at each return of load_file with true (thread 1)
    writer,        \* history: name -> thread whose set_var wrote it last
    clobbered      \* history: set_var calls that replaced a Unicode value while overwrite = false

vars == <<fs, env, envs, pc, file_lines, ind, pending, files_loaded, loads,
          panic, stdout, stderr, env_at_start, last, snap, writer, clobbered>>

-----------------------------------------------------------------------------
(* Bounds *)

MaxLines == 3
MaxLoads == 2
MaxLinesConc == 2

-----------------------------------------------------------------------------
(* Strings *)

BadByte == "\\xFF"
NUL == "\\0"
White == {" ", "\t", "\r", "\n"}

IsUnicode(s) == \A i \in 1..Len(s) : s[i] # BadByte

MatchAt(s, pat, i) ==
    /\ i + Len(pat) - 1 <= Len(s)
    /\ \A j \in 1..Len(pat) : s[i + j - 1] = pat[j]

\* 1-based index of the first occurrence of pat in s, 0 when there is none
Find(s, pat) ==
    LET hits == {i \in 1..(Len(s) + 1) : MatchAt(s, pat, i)}
    IN  IF hits = {} THEN 0 ELSE CHOOSE i \in hits : \A j \in hits : i <= j

\* 1-based index of the last occurrence of pat in s, 0 when there is none
FindLast(s, pat) ==
    LET hits == {i \in 1..(Len(s) + 1) : MatchAt(s, pat, i)}
    IN  IF hits = {} THEN 0 ELSE CHOOSE i \in hits : \A j \in hits : i >= j

starts_with(s, pat) == MatchAt(s, pat, 1)

trim(s) ==
    LET keep == {i \in 1..Len(s) : s[i] \notin White}
    IN  IF keep = {} THEN <<>>
        ELSE LET lo == CHOOSE i \in keep : \A j \in keep : i <= j
                 hi == CHOOSE i \in keep : \A j \in keep : i >= j
             IN  SubSeq(s, lo, hi)

\* str::lines: pieces ended by "\n", a "\r" before that "\n" dropped, and no
\* last empty piece
RECURSIVE lines(_)
lines(text) ==
    IF text = <<>> THEN <<>>
    ELSE LET n == Find(text, <<"\n">>)
         IN  IF n = 0 THEN <<text>>
             ELSE LET raw == SubSeq(text, 1, n - 1)
                      l == IF raw # <<>> /\ raw[Len(raw)] = "\r"
                           THEN SubSeq(raw, 1, Len(raw) - 1) ELSE raw
                  IN  <<l>> \o lines(SubSeq(text, n + 1, Len(text)))

-----------------------------------------------------------------------------
(* EnvLoader and its builder *)

new == [file |-> "./.env_plus",
        comment |-> <<"/", "/">>,
        value_delimiter |-> <<"=">>,
        overwrite |-> FALSE]

change_file(self, path) == [self EXCEPT !.file = path]

change_comment(self, comment) == [self EXCEPT !.comment = comment]

change_delimiter(self, delimiter) == [self EXCEPT !.value_delimiter = delimiter]

overwrite_envs(self, overwrite) == [self EXCEPT !.overwrite = overwrite]

-----------------------------------------------------------------------------
(* std::fs and std::env as load_file and load_line use them *)

read_to_string_or_empty(fsys, path) ==
    IF path \in DOMAIN fsys /\ IsUnicode(fsys[path])
    THEN [is_err |-> FALSE, text |-> fsys[path]]
    ELSE [is_err |-> FALSE, text |-> <<>>]

\* fs::read_to_string: Err when the file is missing or is not valid UTF-8
read_to_string(fsys, path) ==
    IF path \in DOMAIN fsys /\ IsUnicode(fsys[path])
    THEN [is_err |-> FALSE, text |-> fsys[path]]
    ELSE [is_err |-> TRUE, text |-> <<>>]

\* std::env::var(key).is_err(): the variable is not set, or its value is not
\* valid Unicode
var_is_err(e, key) == key \notin DOMAIN e \/ ~IsUnicode(e[key])

\* std::env::set_var panics on an empty name, a name holding "=" or NUL, and
\* a value holding NUL
set_var_panics(key, value) ==
    \/ key = <<>>
    \/ \E i \in 1..Len(key) : key[i] \in {"=", NUL}
    \/ \E i \in 1..Len(value) : value[i] = NUL

set_var(e, key, value) ==
    [k \in DOMAIN e \cup {key} |-> IF k = key THEN value ELSE e[k]]

-----------------------------------------------------------------------------
(* load_line *)

NoPanic == [kind |-> "none", line |-> 0, content |-> <<>>]

NoPair == [key |-> <<>>, value |-> <<>>, is_err |-> FALSE]

is_skipped_untrimmed(line, comment) == starts_with(line, comment) \/ line = <<>>

\* line.trim().starts_with(comment) || line.trim() == ""
is_skipped(line, comment) == starts_with(trim(line), comment) \/ trim(line) = <<>>

\* line.split(comment).collect()[0]
main_line(line, comment) ==
    LET c == Find(line, comment)
    IN  IF c = 0 THEN line ELSE SubSeq(line, 1, c - 1)

key_value_rsplit(main, delimiter) ==
    LET d == FindLast(main, delimiter)
    IN  IF d = 0 THEN <<main>>
        ELSE <<SubSeq(main, 1, d - 1), SubSeq(main, d + Len(delimiter), Len(main))>>

\* main_line.splitn(2, delimiter).collect()
key_value(main, delimiter) ==
    LET d == Find(main, delimiter)
    IN  IF d = 0 THEN <<main>>
        ELSE <<SubSeq(main, 1, d - 1), SubSeq(main, d + Len(delimiter), Len(main))>>

panic_line_zero_based(i) == i

\* the line number of the panic message: ind + 1
panic_line(i) == i + 1

should_set_always(is_err, overwrite) == TRUE

\* whether load_line reaches a set_var: the variable reads as unset, or
\* overwrite is true
should_set(is_err, overwrite) == is_err \/ overwrite

\* What load_line does up to env::var: "skip" (early return), "malformed"
\* (the panic of its fourth statement) or "pair"
parse_line(line, comment, delimiter) ==
    IF is_skipped(line, comment) THEN [kind |-> "skip", key |-> <<>>, value |-> <<>>]
    ELSE LET kv == key_value(main_line(line, comment), delimiter)
         IN  IF Len(kv) < 2 THEN [kind |-> "malformed", key |-> <<>>, value |-> <<>>]
             ELSE [kind |-> "pair", key |-> kv[1], value |-> kv[2]]

load_line_checks_value(e, line, comment, delimiter, overwrite, i) ==
    LET p == parse_line(line, comment, delimiter)
    IN  IF p.kind = "skip" THEN [env |-> e, panic |-> NoPanic, wrote |-> FALSE]
        ELSE IF p.kind = "malformed"
             THEN [env |-> e, wrote |-> FALSE,
                   panic |-> [kind |-> "malformed", line |-> panic_line(i),
                              content |-> line]]
        ELSE IF ~should_set(var_is_err(e, p.value), overwrite)
             THEN [env |-> e, panic |-> NoPanic, wrote |-> FALSE]
        ELSE IF set_var_panics(p.key, p.value)
             THEN [env |-> e, wrote |-> FALSE,
                   panic |-> [kind |-> "set_var", line |-> 0, content |-> line]]
        ELSE [env |-> set_var(e, p.key, p.value), panic |-> NoPanic, wrote |-> TRUE]

load_line_skip_malformed(e, line, comment, delimiter, overwrite, i) ==
    LET p == parse_line(line, comment, delimiter)
    IN  IF p.kind # "pair" THEN [env |-> e, panic |-> NoPanic, wrote |-> FALSE]
        ELSE IF ~should_set(var_is_err(e, p.key), overwrite)
             THEN [env |-> e, panic |-> NoPanic, wrote |-> FALSE]
        ELSE IF set_var_panics(p.key, p.value)
             THEN [env |-> e, wrote |-> FALSE,
                   panic |-> [kind |-> "set_var", line |-> 0, content |-> line]]
        ELSE [env |-> set_var(e, p.key, p.value), panic |-> NoPanic, wrote |-> TRUE]

\* One whole call of load_line on environment e: the environment after it,
\* the panic it raised, and whether it called set_var successfully
load_line(e, line, comment, delimiter, overwrite, i) ==
    LET p == parse_line(line, comment, delimiter)
    IN  IF p.kind = "skip" THEN [env |-> e, panic |-> NoPanic, wrote |-> FALSE]
        ELSE IF p.kind = "malformed"
             THEN [env |-> e, wrote |-> FALSE,
                   panic |-> [kind |-> "malformed", line |-> panic_line(i),
                              content |-> line]]
        ELSE IF ~should_set(var_is_err(e, p.key), overwrite)
             THEN [env |-> e, panic |-> NoPanic, wrote |-> FALSE]
        ELSE IF set_var_panics(p.key, p.value)
             THEN [env |-> e, wrote |-> FALSE,
                   panic |-> [kind |-> "set_var", line |-> 0, content |-> line]]
        ELSE [env |-> set_var(e, p.key, p.value), panic |-> NoPanic, wrote |-> TRUE]

-----------------------------------------------------------------------------
(* Inputs *)

Threads == {1, 2}

K == <<"K">>
J == <<"J">>
old == <<"o", "l", "d">>

\* The loader of tests.rs load_external_file, and the default one
Configs ==
    {overwrite_envs(new, o) : o \in BOOLEAN} \cup
    {overwrite_envs(
        change_file(
            change_delimiter(change_comment(new, <<"#">>), <<"-", "-">>),
            "./.env"), o) : o \in BOOLEAN}

\* Lines of a file read with comment "//" and delimiter "="
SlashLines ==
    { <<>>,
      <<" ", "/", "/", "c">>,
      <<"K", "=", "A">>,
      <<"K", "=", "J">>,
      <<"J", "=", "A", "=", " ", "/", "/", "=">>,
      <<"=", "A">>,
      <<"K", "=">>,
      <<"J", "/", "/", "=", "A">> }

\* Lines of a file read with comment "#" and delimiter "--"
HashLines ==
    { <<"#", "c">>,
      <<"K", "-", "-", "A", "#", "-", "-">>,
      <<" ", "K", "-", "-", "B">>,
      <<"K", "=", "-", "-", "B">>,
      <<"K", "=", "A">> }

LinesFor(c) == IF c.comment = <<"#">> THEN HashLines ELSE SlashLines

SeqsUpTo(S, n) == UNION {[1..k -> S] : k \in 0..n}

RECURSIVE Join(_, _)
Join(ls, eol) ==
    IF ls = <<>> THEN <<>>
    ELSE IF Len(ls) = 1 THEN ls[1]
    ELSE ls[1] \o eol \o Join(Tail(ls), eol)

\* "./.env" has "\r\n" line ends, "./.env_plus" has "\n"
EndOfLine(c) == IF c.file = "./.env" THEN <<"\r", "\n">> ELSE <<"\n">>

Contents(c) == {Join(ls, EndOfLine(c)) : ls \in SeqsUpTo(LinesFor(c), MaxLines)}

\* the configured file with some text, with bytes that are not UTF-8, or missing
FileSystems(c) ==
    {[p \in {c.file} |-> text] : text \in Contents(c) \cup {<<BadByte>>}}
    \cup {[p \in {} |-> <<>>]}

InitialEnvs == {[k \in {} |-> <<>>], [k \in {K} |-> old], [k \in {K} |-> <<BadByte>>]}

NoLine == [thread |-> 0, ind |-> 0, line |-> <<>>,
           parsed |-> [kind |-> "none", key |-> <<>>, value |-> <<>>],
           env_before |-> [k \in {} |-> <<>>], wrote |-> FALSE]

InitCommon ==
    /\ pc = [t \in Threads |-> "idle"]
    /\ file_lines = [t \in Threads |-> <<>>]
    /\ ind = [t \in Threads |-> 0]
    /\ pending = [t \in Threads |-> NoPair]
    /\ files_loaded = [t \in Threads |-> "none"]
    /\ loads = [t \in Threads |-> 0]
    /\ panic = [t \in Threads |-> NoPanic]
    /\ stdout = 0
    /\ stderr = 0
    /\ env_at_start = [t \in Threads |-> env]
    /\ last = NoLine
    /\ snap = <<>>
    /\ writer = [k \in {} |-> 0]
    /\ clobbered = {}

\* One thread, one loader, one file
Init ==
    /\ \E c \in Configs :
        /\ envs = [t \in Threads |-> c]
        /\ fs \in FileSystems(c)
    /\ env \in InitialEnvs
    /\ InitCommon

-----------------------------------------------------------------------------
(* activate and load_file *)

\* activate up to the loop of load_file: the file is read; on Err load_file
\* prints and returns false and activate prints "An error has occured"
Begin(t, max) ==
    /\ pc[t] = "idle"
    /\ loads[t] < max
    /\ LET file == read_to_string(fs, envs[t].file)
       IN  IF file.is_err
           THEN /\ stdout' = stdout + 1
                /\ stderr' = stderr + 1
                /\ files_loaded' = [files_loaded EXCEPT ![t] = "false"]
                /\ loads' = [loads EXCEPT ![t] = @ + 1]
                /\ UNCHANGED <<pc, file_lines, ind, env_at_start>>
           ELSE /\ file_lines' = [file_lines EXCEPT ![t] = lines(file.text)]
                /\ ind' = [ind EXCEPT ![t] = 0]
                /\ pc' = [pc EXCEPT ![t] = "loop"]
                /\ env_at_start' = [env_at_start EXCEPT ![t] = env]
                /\ UNCHANGED <<stdout, stderr, files_loaded, loads>>
    /\ UNCHANGED <<fs, env, envs, pending, panic, last, snap, writer, clobbered>>

Activate(t) == Begin(t, MaxLoads)

\* One iteration of the for loop of load_file: a whole load_line
LoadLine(t) ==
    /\ pc[t] = "loop"
    /\ ind[t] < Len(file_lines[t])
    /\ LET line == file_lines[t][ind[t] + 1]
           c == envs[t]
           r == load_line(env, line, c.comment, c.value_delimiter, c.overwrite, ind[t])
           p == parse_line(line, c.comment, c.value_delimiter)
       IN  /\ env' = r.env
           /\ last' = [thread |-> t, ind |-> ind[t], line |-> line, parsed |-> p,
                       env_before |-> env, wrote |-> r.wrote]
           /\ writer' = IF r.wrote
                        THEN [k \in DOMAIN writer \cup {p.key} |->
                                 IF k = p.key THEN t ELSE writer[k]]
                        ELSE writer
           /\ clobbered' =
                 IF r.wrote /\ ~c.overwrite /\ p.key \in DOMAIN env /\ IsUnicode(env[p.key])
                 THEN clobbered \cup {[thread |-> t, key |-> p.key, unset_at_check |-> FALSE,
                                       prev_writer |-> IF p.key \in DOMAIN writer
                                                       THEN writer[p.key] ELSE 0]}
                 ELSE clobbered
           /\ IF r.panic.kind # "none"
              THEN /\ pc' = [pc EXCEPT ![t] = "panicked"]
                   /\ panic' = [panic EXCEPT ![t] = r.panic]
                   /\ UNCHANGED ind
              ELSE /\ ind' = [ind EXCEPT ![t] = @ + 1]
                   /\ UNCHANGED <<pc, panic>>
    /\ UNCHANGED <<fs, envs, file_lines, pending, files_loaded, loads, stdout, stderr,
                   env_at_start, snap>>

\* The loop is over: load_file returns true and activate returns
Return(t) ==
    /\ pc[t] = "loop"
    /\ ind[t] = Len(file_lines[t])
    /\ pc' = [pc EXCEPT ![t] = "idle"]
    /\ files_loaded' = [files_loaded EXCEPT ![t] = "true"]
    /\ loads' = [loads EXCEPT ![t] = @ + 1]
    /\ snap' = IF t = 1 THEN Append(snap, env) ELSE snap
    /\ UNCHANGED <<fs, env, envs, file_lines, ind, pending, panic, stdout, stderr,
                   env_at_start, last, writer, clobbered>>

Next == Activate(1) \/ LoadLine(1) \/ Return(1)

Spec == Init /\ [][Next]_vars

-----------------------------------------------------------------------------
(* Two threads that each activate a loader.  std::env serialises single
   calls of var and set_var; load_line holds no lock from its var to its
   set_var, so the two calls are two steps. *)

ConcLines == { <<"K", "=", "A">>, <<"K", "=", "B">> }

ConcContents == {Join(ls, <<"\n">>) : ls \in SeqsUpTo(ConcLines, MaxLinesConc)}

InitConc ==
    /\ \E o1 \in BOOLEAN, o2 \in BOOLEAN :
          envs = [t \in Threads |->
                     IF t = 1 THEN overwrite_envs(new, o1)
                     ELSE overwrite_envs(change_file(new, "./.env"), o2)]
    /\ \E a \in ConcContents, b \in ConcContents :
          fs = [p \in {"./.env_plus", "./.env"} |-> IF p = "./.env_plus" THEN a ELSE b]
    /\ env \in {[k \in {} |-> <<>>], [k \in {K} |-> old]}
    /\ InitCommon

ActivateOnce(t) == Begin(t, 1)

\* load_line up to and including env::var(key)
CheckLine(t) ==
    /\ pc[t] = "loop"
    /\ ind[t] < Len(file_lines[t])
    /\ LET line == file_lines[t][ind[t] + 1]
           c == envs[t]
           p == parse_line(line, c.comment, c.value_delimiter)
       IN  /\ last' = [thread |-> t, ind |-> ind[t], line |-> line, parsed |-> p,
                       env_before |-> env, wrote |-> FALSE]
           /\ IF p.kind = "skip"
              THEN /\ ind' = [ind EXCEPT ![t] = @ + 1]
                   /\ UNCHANGED <<pc, panic, pending>>
              ELSE IF p.kind = "malformed"
              THEN /\ pc' = [pc EXCEPT ![t] = "panicked"]
                   /\ panic' = [panic EXCEPT ![t] =
                                   [kind |-> "malformed", line |-> panic_line(ind[t]),
                                    content |-> line]]
                   /\ UNCHANGED <<ind, pending>>
              ELSE IF should_set(var_is_err(env, p.key), c.overwrite)
              THEN /\ pc' = [pc EXCEPT ![t] = "set"]
                   /\ pending' = [pending EXCEPT ![t] =
                                     [key |-> p.key, value |-> p.value,
                                      is_err |-> var_is_err(env, p.key)]]
                   /\ UNCHANGED <<ind, panic>>
              ELSE /\ ind' = [ind EXCEPT ![t] = @ + 1]
                   /\ UNCHANGED <<pc, panic, pending>>
    /\ UNCHANGED <<fs, env, envs, file_lines, files_loaded, loads, stdout, stderr,
                   env_at_start, snap, writer, clobbered>>

\* std::env::set_var(key, value), the last statement of load_line
SetVar(t) ==
    /\ pc[t] = "set"
    /\ LET key == pending[t].key
           value == pending[t].value
       IN  IF set_var_panics(key, value)
           THEN /\ pc' = [pc EXCEPT ![t] = "panicked"]
                /\ panic' = [panic EXCEPT ![t] =
                                [kind |-> "set_var", line |-> 0,
                                 content |-> file_lines[t][ind[t] + 1]]]
                /\ UNCHANGED <<env, ind, writer, clobbered>>
           ELSE /\ env' = set_var(env, key, value)
                /\ pc' = [pc EXCEPT ![t] = "loop"]
                /\ ind' = [ind EXCEPT ![t] = @ + 1]
                /\ writer' = [k \in DOMAIN writer \cup {key} |->
                                 IF k = key THEN t ELSE writer[k]]
                /\ clobbered' =
                      IF ~envs[t].overwrite /\ key \in DOMAIN env /\ IsUnicode(env[key])
                      THEN clobbered \cup
                             {[thread |-> t, key |-> key,
                               unset_at_check |-> pending[t].is_err,
                               prev_writer |-> IF key \in DOMAIN writer
                                               THEN writer[key] ELSE 0]}
                      ELSE clobbered
                /\ UNCHANGED panic
    /\ pending' = [pending EXCEPT ![t] = NoPair]
    /\ UNCHANGED <<fs, envs, file_lines, files_loaded, loads, stdout, stderr,
                   env_at_start, last, snap>>

NextConc == \E t \in Threads : ActivateOnce(t) \/ CheckLine(t) \/ SetVar(t) \/ Return(t)

SpecConc == InitConc /\ [][NextConc]_vars

-----------------------------------------------------------------------------
(* Properties.  Thread 1 is the only thread of Spec. *)

Cfg == envs[1]

Occurs(s, pat) == \E i \in 1..(Len(s) + 1) : MatchAt(s, pat, i)

\* the line is blank, or a comment, in the words of the documentation
CommentOrBlank(line, comment) ==
    LET t == trim(line) IN t = <<>> \/ MatchAt(t, comment, 1)

ParsedAt(j) == parse_line(file_lines[1][j], Cfg.comment, Cfg.value_delimiter)

\* load_line has handled a line of thread 1
Handled == last.thread = 1

\* C1: for every parsed pair, the write step follows the overwrite policy: an
\* absent key is set to the value; a present key is set to the value only when
\* overwrite is true and otherwise keeps its value.  (Stated for the lines on
\* which set_var raises nothing.)
C1_OverwritePolicy ==
    (Handled /\ last.parsed.kind = "pair" /\ pc[1] # "panicked") =>
        LET k == last.parsed.key
            v == last.parsed.value
            b == last.env_before
        IN  /\ k \in DOMAIN env
            /\ env[k] = IF k \notin DOMAIN b \/ Cfg.overwrite THEN v ELSE b[k]

\* C2: with overwrite = false, a key that was absent when the load began holds,
\* from its first line on, the value of its FIRST occurrence in the file.
C2_FirstOccurrenceWins ==
    ~Cfg.overwrite =>
        \A i \in 1..Len(file_lines[1]) :
            (/\ i <= ind[1]
             /\ ParsedAt(i).kind = "pair"
             /\ ParsedAt(i).key \notin DOMAIN env_at_start[1]
             /\ \A j \in 1..(i - 1) :
                   ParsedAt(j).kind = "pair" => ParsedAt(j).key # ParsedAt(i).key)
            => /\ ParsedAt(i).key \in DOMAIN env
               /\ env[ParsedAt(i).key] = ParsedAt(i).value

\* a load with overwrite = false has returned, on a file that defines a key,
\* absent before, on two lines with two values
C2_Witness ==
    /\ ~Cfg.overwrite
    /\ pc[1] = "idle"
    /\ files_loaded[1] = "true"
    /\ loads[1] = 1
    /\ \E i, j \in 1..Len(file_lines[1]) :
          /\ i < j
          /\ ParsedAt(i).kind = "pair"
          /\ ParsedAt(j).kind = "pair"
          /\ ParsedAt(i).key = ParsedAt(j).key
          /\ ParsedAt(i).value # ParsedAt(j).value
          /\ ParsedAt(i).key \notin DOMAIN env_at_start[1]
          /\ ParsedAt(i).key \in DOMAIN env

\* the environment after load_line has run on each line of ls in order
RECURSIVE AfterLines(_, _, _)
AfterLines(e, ls, c) ==
    IF ls = <<>> THEN e
    ELSE AfterLines(load_line(e, ls[1], c.comment, c.value_delimiter, c.overwrite, 0).env,
                    Tail(ls), c)

\* a non-blank, non-comment line with no delimiter before its first comment marker
Malformed(line, c) ==
    /\ ~CommentOrBlank(line, c.comment)
    /\ \A m \in 0..Len(line) :
          (/\ \A i \in 1..m : ~MatchAt(line, c.comment, i)
           /\ (m = Len(line) \/ MatchAt(line, c.comment, m + 1)))
          => ~Occurs(SubSeq(line, 1, m), c.value_delimiter)

\* C3: the loop never gets past a malformed line: the thread panics on the
\* first one, with the environment that the lines before it produced, and the
\* bad line is the last line handled.
C3_AbortOnFirstMalformed ==
    /\ \A j \in 1..Len(file_lines[1]) :
          (j <= ind[1] /\ pc[1] # "idle") => ~Malformed(file_lines[1][j], Cfg)
    /\ (pc[1] = "loop" /\ ind[1] < Len(file_lines[1]) /\ Handled /\ last.ind = ind[1])
          => ~Malformed(file_lines[1][ind[1] + 1], Cfg)
    /\ panic[1].kind = "malformed" =>
          /\ pc[1] = "panicked"
          /\ Malformed(file_lines[1][ind[1] + 1], Cfg)
          /\ last.ind = ind[1]
          /\ last.line = file_lines[1][ind[1] + 1]
          /\ env = last.env_before
          /\ env = AfterLines(env_at_start[1], SubSeq(file_lines[1], 1, ind[1]), Cfg)

\* the panic came after a line that was written and before a line that never ran
C3_Witness ==
    /\ panic[1].kind = "malformed"
    /\ ind[1] >= 1
    /\ ind[1] + 1 < Len(file_lines[1])
    /\ env # env_at_start[1]
    /\ ParsedAt(ind[1] + 2).kind = "pair"
    /\ ParsedAt(ind[1] + 2).key \notin DOMAIN env

ReadFails == Cfg.file \notin DOMAIN fs \/ \E i \in 1..Len(fs[Cfg.file]) : fs[Cfg.file][i] = BadByte

\* C4: when the file cannot be read, activate returns: load_file returns
\* false after printing, activate prints, nothing panics, no line is parsed
\* and the environment stays as it was.
C4_ReadFailureIsReported ==
    ReadFails =>
        /\ pc[1] = "idle"
        /\ panic[1] = NoPanic
        /\ last = NoLine
        /\ file_lines[1] = <<>>
        /\ env = env_at_start[1]
        /\ writer = <<>>
        /\ stdout = loads[1]
        /\ stderr = loads[1]
        /\ loads[1] > 0 => files_loaded[1] = "false"

\* activate has returned from a missing file, with a variable in the environment
C4_Witness ==
    /\ Cfg.file \notin DOMAIN fs
    /\ loads[1] > 0
    /\ files_loaded[1] = "false"
    /\ stderr > 0
    /\ K \in DOMAIN env

\* C5: with overwrite = false, a load of the file that follows a load of the
\* same file leaves the environment as the earlier load left it.
C5_SecondLoadChangesNothing ==
    ~Cfg.overwrite => \A n \in 1..(Len(snap) - 1) : snap[n + 1] = snap[n]

\* two loads have returned and the first one set a variable
C5_Witness ==
    /\ ~Cfg.overwrite
    /\ Len(snap) >= 2
    /\ J \in DOMAIN snap[1]
    /\ K \in DOMAIN snap[1]

\* C6 as the documentation states it: every non-comment, non-blank line that
\* contains the delimiter yields a pair.
C6_PairWheneverLineHasDelimiter ==
    (/\ Handled
     /\ ~CommentOrBlank(last.line, Cfg.comment)
     /\ Occurs(last.line, Cfg.value_delimiter))
    => last.parsed.kind = "pair"

\* C6: for a non-comment, non-blank line, let m be the line cut at its first
\* comment marker.  If m contains the delimiter, the line yields a pair with
\* key, delimiter, value spelling m and no delimiter occurrence starting
\* before the one that follows the key; key and value are untrimmed.
C6_SplitAtFirstDelimiter ==
    (Handled /\ ~CommentOrBlank(last.line, Cfg.comment)) =>
        \E m \in 0..Len(last.line) :
            LET main == SubSeq(last.line, 1, m)
                p == last.parsed
            IN  /\ \A i \in 1..m : ~MatchAt(last.line, Cfg.comment, i)
                /\ m = Len(last.line) \/ MatchAt(last.line, Cfg.comment, m + 1)
                /\ Occurs(main, Cfg.value_delimiter) =>
                      /\ p.kind = "pair"
                      /\ p.key \o Cfg.value_delimiter \o p.value = main
                      /\ \A i \in 1..Len(p.key) : ~MatchAt(main, Cfg.value_delimiter, i)

\* a line with a second delimiter and a trailing comment gave a value that
\* keeps the delimiter and the blank before the comment
C6_Witness ==
    /\ Handled
    /\ last.line = <<"J", "=", "A", "=", " ", "/", "/", "=">>
    /\ last.parsed = [kind |-> "pair", key |-> J, value |-> <<"A", "=", " ">>]
    /\ last.wrote
    /\ env[J] = <<"A", "=", " ">>

\* C7: a data line with an empty key or an empty value raises no error.
C7_EmptyKeyOrValueAccepted ==
    (/\ Handled
     /\ last.parsed.kind = "pair"
     /\ last.parsed.key = <<>> \/ last.parsed.value = <<>>)
    => pc[1] # "panicked"

\* C8: a line that is blank, or whose trimmed content starts with the comment
\* marker, yields no pair, raises nothing and leaves the environment as it was.
C8_CommentOrBlankChangesNothing ==
    (Handled /\ CommentOrBlank(last.line, Cfg.comment)) =>
        /\ last.parsed.kind = "skip"
        /\ ~last.wrote
        /\ env = last.env_before
        /\ pc[1] # "panicked"
        /\ panic[1] = NoPanic

\* a comment line with a blank before the marker was handled after a line
\* that set a variable
C8_Witness ==
    /\ Handled
    /\ last.ind >= 1
    /\ last.line # <<>>
    /\ last.line[1] = " "
    /\ CommentOrBlank(last.line, Cfg.comment)
    /\ env # env_at_start[1]

\* the 1-based positions of the malformed lines of the file
MalformedPositions ==
    LET ls == lines(fs[Cfg.file])
    IN  {j \in 1..Len(ls) : Malformed(ls[j], Cfg)}

\* C9: the line number of the panic message is the 1-based position, in the
\* file, of its first malformed line (blank and comment lines before it
\* counted), and the content is that line.
C9_PanicLineIsOneBased ==
    panic[1].kind = "malformed" =>
        LET n == panic[1].line
        IN  /\ n \in MalformedPositions
            /\ \A j \in MalformedPositions : n <= j
            /\ lines(fs[Cfg.file])[n] = panic[1].content
            /\ n = ind[1] + 1

\* the third line of a file was malformed, after a blank or comment line
C9_Witness ==
    /\ panic[1].kind = "malformed"
    /\ panic[1].line = 3
    /\ \E j \in 1..2 : ParsedAt(j).kind = "skip"

\* C10: load_line's env::var and set_var are two steps.  With overwrite =
\* false, a set_var replaces a value already in the environment only when
\* the thread read the variable as unset and the other thread set it since.
C10_ClobberOnlyByRace ==
    \A c \in clobbered :
        /\ c.unset_at_check
        /\ c.prev_writer \in Threads \ {c.thread}

\* both loaders have overwrite = false and began while K was absent; one has
\* replaced the value the other had set
C10_Witness ==
    /\ ~envs[1].overwrite
    /\ ~envs[2].overwrite
    /\ K \notin DOMAIN env_at_start[1]
    /\ K \notin DOMAIN env_at_start[2]
    /\ \E c \in clobbered : c.key = K /\ env[K] # <<"A">>
    /\ fs["./.env_plus"] = <<"K", "=", "A">>
    /\ fs["./.env"] = <<"K", "=", "B">>

====
